---- MODULE Spec2Model ----
(***************************************************************************)
(* A model of the grants-scraper pipeline:                                 *)
(*   crawl_list.py      the paginated list crawler and the URL store       *)
(*   extract_details.py the detail extractor (a pure function)             *)
(*   extract_batch.py   the extraction driver that rewrites details_store  *)
(*   dedupe_details.py  duplicate resolution on details_store              *)
(* Strings that the code inspects are sequences of tokens, URLs are        *)
(* records [host, path], dates are triples <<y, m, d>>.                    *)
(***************************************************************************)
EXTENDS Integers, Sequences, FiniteSets, TLC

VARIABLES
    \* ---- crawl_list.py ----
    list_store,   \* list_store.csv: sequence of rows
    index,        \* list_index.csv on disk
    idx_rows,     \* main's in-memory copy of the index rows
    pc,           \* position of crawl_list.main: "idle", "row", "page"
    rowi,         \* index of the idx_rows entry the for-loop is at
    page_url,     \* main's page_url (NoUrl is None)
    pages,        \* main's pages counter
    force,        \* args.force of the running crawl
    today,        \* the calendar day, as a day number (see DateOfDay)
    runs,         \* number of crawl runs started
    last_page,    \* URL of the last page fetched for the current site
    last_next,    \* what find_next_url returned for that page
    detail_urls,  \* what collect_detail_urls returned for that page
    added,        \* what append_to_store returned for that page
    op,           \* name of the last step taken
    phase,        \* "fresh", "crashed" (a run died mid-batch), "recovered"
    exit_code,    \* exit status of the last crawl process (-1: none has ended)
    visited,      \* list pages fetched so far for the current site
    clean,        \* sites whose pagination ended without an error today
    \* ---- extract_details.py ----
    xdoc,         \* the parsed page extract_detail works on
    xout,         \* extract_detail's out
    xi,           \* index of the row the for-loop is at
    xpc,          \* "off", "rows", "done"
    \* ---- details_store.csv: extract_batch.py and dedupe_details.py ----
    details,      \* details_store.csv: [st, rows], st is "absent", "ok" or "partial"
    bak,          \* details_store.csv.bak
    tmp,          \* details_store.csv.tmp
    dpc,          \* position of the process working on the details store
    dop,          \* name of the last step taken on the details store
    dd_old,       \* the rows dedupe_details.main read
    rerun,        \* the running dedupe read what the previous dedupe wrote
    fresh_out,    \* the primary file is the output of a completed dedupe
    out_rows,     \* extract_batch.main's out_rows
    li,           \* index of the list row extract_batch's loop is at
    processed,    \* extract_batch.main's processed
    bforce,       \* args.force of extract_batch
    blimit,       \* args.limit of extract_batch
    bsite,        \* args.site_key of extract_batch ("" is None)
    bruns,        \* number of extract_batch runs started
    \* ---- choose_keeper as a function ----
    krows,        \* rows handed to choose_keeper
    kidx,         \* indices handed to choose_keeper
    kkeeper,      \* the index it returned (0 before the call)
    kpc,          \* "off", "call", "done"
    \* ---- generate_public.py ----
    public        \* public_store.csv: [st, rows]

crawlVars == <<list_store, index, idx_rows, pc, rowi, page_url, pages, force,
               today, runs, last_page, last_next, detail_urls, added, op, phase,
               exit_code, visited, clean>>

extractVars == <<xdoc, xout, xi, xpc>>

detailVars == <<details, bak, tmp, dpc, dop, dd_old, rerun, fresh_out, out_rows, li,
                processed, bforce, blimit, bsite, bruns>>

keeperVars == <<krows, kidx, kkeeper, kpc>>

publicVars == <<public>>

notCrawl == <<extractVars, detailVars, keeperVars, publicVars>>

vars == <<crawlVars, extractVars, detailVars, keeperVars, publicVars>>

-----------------------------------------------------------------------------
(* Bounds of the model *)

MaxRuns == 2
MaxDay == 2
MaxCand == 2
MaxRows == 3
MaxBatchRuns == 1
MaxLimit == 1
MaxGroup == 3
MaxStore == 3

-----------------------------------------------------------------------------
(* Dates, URLs, hrefs *)

\* datetime.now().strftime("%Y-%m-%d") for day number n; the modelled days
\* straddle a year end.
DateOfDay(n) == IF n <= 2 THEN <<2025, 12, 29 + n>> ELSE <<2026, 1, n - 2>>

NoDate == <<>>

Url(h, p) == [host |-> h, path |-> p]
NoUrl == [host |-> "", path |-> ""]

\* an href attribute: absolute, root-relative, a reference to the page itself
\* ("#", "?p=<same>"), or empty/missing
Abs(h, p) == [kind |-> "abs", host |-> h, path |-> p]
Rel(p) == [kind |-> "rel", host |-> "", path |-> p]
SelfRef == [kind |-> "self", host |-> "", path |-> ""]
NoHref == [kind |-> "empty", host |-> "", path |-> ""]

\* a node that holds (or is) an <a>, and the absence of one
Anchor(h) == [present |-> TRUE, href |-> h]
NoNode == [present |-> FALSE, href |-> NoHref]

urljoin(base, h) ==
    CASE h.kind = "abs" -> Url(h.host, h.path)
      [] h.kind = "rel" -> Url(base.host, h.path)
      [] OTHER -> base

netloc(u) == u.host

\* hashlib.sha256(u.encode()).hexdigest(): a digest that is a function of the
\* whole URL string and of nothing else
sha256(u) == <<"sha256", u.host, u.path>>

-----------------------------------------------------------------------------
(* The sites: list_sites.yaml, list_index.csv and the pages served *)

MAX_PAGES == 50

site_map ==
    [k \in {"A", "B", "S"} |->
        CASE k = "A" -> [list_selector |-> TRUE, next_selector |-> TRUE]
          [] k = "B" -> [list_selector |-> TRUE, next_selector |-> FALSE]
          [] OTHER -> [list_selector |-> FALSE, next_selector |-> FALSE]]

\* lines 189-194: the site is configured and has a list selector
HasListSelector(k) == IF k \in DOMAIN site_map THEN site_map[k].list_selector ELSE FALSE

IndexRow(k, u) == [site_key |-> k, url |-> u, updated_at |-> NoDate, processed |-> "0"]

InitIndex ==
    << IndexRow("A", Url("a", "/list")),
       IndexRow("N", Url("n", "/list")),
       IndexRow("S", Url("s", "/list")),
       IndexRow("B", Url("b", "/p1")) >>

Page(items, sel, rel, txt) == [items |-> items, sel |-> sel, rel |-> rel, txt |-> txt]

\* the documents a GET of u may return (a site changes between runs); the
\* empty set is a URL that only ever fails
Web(u) ==
    CASE u = Url("a", "/list") ->
            { Page(<<Anchor(Rel("/d1")), Anchor(Rel("/d2")), Anchor(Rel("/d1")),
                     Anchor(Abs("x", "/ad")), NoNode>>,
                   Anchor(Rel("/list2")), NoNode, NoNode),
              Page(<<Anchor(Rel("/d3")), Anchor(Abs("a", "/d1")), Anchor(NoHref)>>,
                   NoNode, Anchor(Rel("/list2")), NoNode) }
      [] u = Url("a", "/list2") ->
            { Page(<<Anchor(Rel("/d2")), Anchor(Rel("/d4"))>>,
                   NoNode, NoNode, Anchor(SelfRef)),
              \* the next link leads to another host
              Page(<<Anchor(Rel("/d2")), Anchor(Rel("/d4"))>>,
                   Anchor(Abs("x", "/more")), NoNode, NoNode) }
      [] u = Url("x", "/more") ->
            { Page(<<>>, NoNode, NoNode, NoNode) }
      [] u = Url("b", "/p1") ->
            { Page(<<Anchor(Rel("/e1"))>>,
                   Anchor(Rel("/unused")), Anchor(Rel("/p2")), NoNode) }
      [] u = Url("b", "/p2") ->
            { Page(<<Anchor(Abs("b", "/e2")), Anchor(Rel("/e1"))>>,
                   NoNode, NoNode, NoNode),
              Page(<<Anchor(Rel("/e2"))>>,
                   NoNode, Anchor(NoHref), Anchor(Rel("/p1"))) }
      \* two list pages that name each other as the next page
      [] u = Url("c", "/p1") ->
            { Page(<<Anchor(Rel("/x1"))>>, NoNode, Anchor(Rel("/p2")), NoNode) }
      [] u = Url("c", "/p2") ->
            { Page(<<Anchor(Rel("/x2"))>>, NoNode, Anchor(Rel("/p1")), NoNode) }
      \* three list pages in a ring
      [] u = Url("c", "/q1") ->
            { Page(<<Anchor(Rel("/x1"))>>, Anchor(Rel("/q2")), NoNode, NoNode) }
      [] u = Url("c", "/q2") ->
            { Page(<<>>, Anchor(Rel("/q3")), NoNode, NoNode) }
      [] u = Url("c", "/q3") ->
            { Page(<<Anchor(Rel("/x3"))>>, Anchor(Abs("c", "/q1")), NoNode, NoNode) }
      [] OTHER -> {}

\* an index whose sites paginate in cycles
CycleIndex ==
    << IndexRow("B", Url("c", "/p1")),
       IndexRow("S", Url("s", "/list")),
       IndexRow("A", Url("c", "/q1")) >>

-----------------------------------------------------------------------------
(* crawl_list.py: the pure parts *)

RECURSIVE Dedup(_, _)
\* the "重複除去" loop: first occurrences, in order
Dedup(urls, seen) ==
    IF urls = <<>> THEN <<>>
    ELSE IF Head(urls) \in seen THEN Dedup(Tail(urls), seen)
    ELSE <<Head(urls)>> \o Dedup(Tail(urls), seen \cup {Head(urls)})

RECURSIVE AllLinks(_, _)
\* the for-loop over the selected nodes without the host comparison
AllLinks(nodes, base_url) ==
    IF nodes = <<>> THEN <<>>
    ELSE LET n == Head(nodes)
             rest == AllLinks(Tail(nodes), base_url)
         IN  IF ~n.present THEN rest
             ELSE IF n.href.kind = "empty" THEN rest
             ELSE <<urljoin(base_url, n.href)>> \o rest

RECURSIVE HostLinks(_, _)
\* the for-loop over the selected nodes
HostLinks(nodes, base_url) ==
    IF nodes = <<>> THEN <<>>
    ELSE LET n == Head(nodes)
             rest == HostLinks(Tail(nodes), base_url)
         IN  IF ~n.present THEN rest
             ELSE IF n.href.kind = "empty" THEN rest
             ELSE IF netloc(urljoin(base_url, n.href)) # netloc(base_url) THEN rest
             ELSE <<urljoin(base_url, n.href)>> \o rest

collect_detail_urls_nodedup(page, base_url) == HostLinks(page.items, base_url)

collect_detail_urls(page, base_url) == Dedup(HostLinks(page.items, base_url), {})

find_next_url(page, base_url, cfg) ==
    LET a1 == IF cfg.next_selector THEN page.sel ELSE NoNode
        a2 == IF a1.present THEN a1 ELSE page.rel
        a3 == IF a2.present THEN a2 ELSE page.txt
    IN  IF ~a3.present THEN NoUrl
        ELSE IF a3.href.kind = "empty" THEN NoUrl
        ELSE urljoin(base_url, a3.href)

\* lines 207-209: a next link to the page itself ends the pagination
next_page_noguard(next_url, cur) == next_url

next_page(next_url, cur) == IF next_url = cur THEN NoUrl ELSE next_url

existed_keys(store) == {store[i].dedupe_key : i \in DOMAIN store}

\* a start_id that ignores the ids already in the store
MaxIdNone(store) == 0

MaxId(store) ==
    IF store = <<>> THEN 0
    ELSE CHOOSE m \in {store[i].id : i \in DOMAIN store} :
            \A i \in DOMAIN store : store[i].id <= m

StoreRow(i, site_key, u, day) ==
    [id |-> i, site_key |-> site_key, url |-> u, dedupe_key |-> sha256(u),
     fetched_at |-> DateOfDay(day), processed |-> "0"]

IsNewUrl(store, u) == sha256(u) \notin existed_keys(store)

\* the rows append_to_store builds (lines 131-146)
to_append_nocheck(store, site_key, urls, day) ==
    [j \in 1..Len(urls) |-> StoreRow(MaxId(store) + j, site_key, urls[j], day)]

to_append(store, site_key, urls, day) ==
    LET new == SelectSeq(urls, LAMBDA u : IsNewUrl(store, u))
    IN  [j \in 1..Len(new) |-> StoreRow(MaxId(store) + j, site_key, new[j], day)]

\* append_to_store: the store after the call and the returned count
append_to_store(store, site_key, urls, day) ==
    LET rows == to_append(store, site_key, urls, day)
    IN  [store |-> store \o rows, n |-> Len(rows)]

should_process_row(row, f, day) ==
    IF f THEN TRUE ELSE row.updated_at # DateOfDay(day)

-----------------------------------------------------------------------------
(* Text: a string the code inspects is a sequence of tokens [c, v, w]; a   *)
(* token is a maximal run of w digits of value v (c = "d"), or a symbol:   *)
(* "nen", "gatsu", "nichi" (the year, month and day glyphs), "/", ".",     *)
(* "-", "wave", "wave2", "kara", "tilde" (range separators), "sp" (a blank *)
(* or tab), "cr", "lf" (carriage return, line feed), "x" (any other        *)
(* character)                                                              *)

D(v, w) == [c |-> "d", v |-> v, w |-> w]
S(c) == [c |-> c, v |-> 0, w |-> 0]

IsWs(t) == t.c \in {"sp", "cr", "lf"}

\* number of characters of a token
TokLen(t) == IF t.c = "d" THEN t.w ELSE IF t.c = "kara" THEN 2 ELSE 1

RECURSIVE CharLen(_)
\* len(text)
CharLen(s) == IF s = <<>> THEN 0 ELSE TokLen(Head(s)) + CharLen(Tail(s))

RECURSIVE LStrip(_)
LStrip(s) == IF s = <<>> THEN <<>> ELSE IF IsWs(Head(s)) THEN LStrip(Tail(s)) ELSE s

RECURSIVE RStrip(_)
RStrip(s) ==
    IF s = <<>> THEN <<>>
    ELSE IF IsWs(s[Len(s)]) THEN RStrip(SubSeq(s, 1, Len(s) - 1)) ELSE s

\* str.strip()
Strip(s) == RStrip(LStrip(s))

RECURSIVE SqueezeWs(_)
SqueezeWs(s) ==
    IF s = <<>> THEN <<>>
    ELSE IF Len(s) >= 2 /\ IsWs(s[1]) /\ IsWs(s[2]) THEN SqueezeWs(Tail(s))
    ELSE <<IF IsWs(s[1]) THEN S("sp") ELSE s[1]>> \o SqueezeWs(Tail(s))

\* " ".join(text.split())
Collapse(s) == SqueezeWs(Strip(s))

RECURSIVE SkipWs(_, _)
\* the position the pattern's \s* leaves the match at
SkipWs(s, i) == IF i <= Len(s) /\ IsWs(s[i]) THEN SkipWs(s, i + 1) ELSE i

RECURSIVE Pow10(_)
Pow10(n) == IF n = 0 THEN 1 ELSE 10 * Pow10(n - 1)

\* the digits a \d{1,2} takes at the start of a run, at the end of a run,
\* and the digits a \d{4} takes at the end of a run
FirstTwo(t) == IF t.w <= 2 THEN t.v ELSE t.v \div Pow10(t.w - 2)
LastTwo(t) == t.v % 100
LastFour(t) == t.v % 10000

IsDigits(s, i) == i <= Len(s) /\ s[i].c = "d"
IsSym(s, i, cs) == i <= Len(s) /\ s[i].c \in cs

YearSeps == {"nen", "/", ".", "-"}
MonthSeps == {"gatsu", "/", ".", "-"}

\* calendar: datetime(y, m, d) raises ValueError unless this holds
IsLeap(y) == (y % 4 = 0 /\ y % 100 # 0) \/ y % 400 = 0
DaysIn(y, m) ==
    IF m = 2 THEN (IF IsLeap(y) THEN 29 ELSE 28)
    ELSE IF m \in {4, 6, 9, 11} THEN 30 ELSE 31
ValidDate(y, m, d) ==
    /\ y >= 1 /\ y <= 9999
    /\ m >= 1 /\ m <= 12
    /\ d >= 1 /\ d <= DaysIn(y, m)

\* datetime(y, m, d).strftime("%Y-%m-%d"), or None
MakeDate(y, m, d) == IF ValidDate(y, m, d) THEN <<y, m, d>> ELSE NoDate

\* (\d{4})[年/.\-]\s*(\d{1,2})[月/.\-]\s*(\d{1,2}) matching from token i
FullAt(s, i) ==
    /\ IsDigits(s, i) /\ s[i].w >= 4
    /\ IsSym(s, i + 1, YearSeps)
    /\ LET j == SkipWs(s, i + 2)
       IN  /\ IsDigits(s, j) /\ s[j].w <= 2
           /\ IsSym(s, j + 1, MonthSeps)
           /\ IsDigits(s, SkipWs(s, j + 2))

\* (\d{1,2})[月/.\-]\s*(\d{1,2}) matching from (the end of) token i
ShortAt(s, i) ==
    /\ IsDigits(s, i)
    /\ IsSym(s, i + 1, MonthSeps)
    /\ IsDigits(s, SkipWs(s, i + 2))

Leftmost(P) == CHOOSE i \in P : \A j \in P : i <= j

\* _norm_date(text, default_year); year is default_year or the current year
norm_date(text, year) ==
    LET s == Strip(text)
        full == {i \in DOMAIN s : FullAt(s, i)}
        short == {i \in DOMAIN s : ShortAt(s, i)}
    IN  IF s = <<>> THEN NoDate
        ELSE IF full # {} THEN
            LET i == Leftmost(full)
                j == SkipWs(s, i + 2)
                k == SkipWs(s, j + 2)
            IN  MakeDate(LastFour(s[i]), s[j].v, FirstTwo(s[k]))
        ELSE IF short # {} THEN
            LET i == Leftmost(short)
                k == SkipWs(s, i + 2)
            IN  MakeDate(year, LastTwo(s[i]), FirstTwo(s[k]))
        ELSE NoDate

YearOf(day) == DateOfDay(day)[1]

\* a CSV file on disk: absent, complete, or cut short by a dying writer
File(st, rows) == [st |-> st, rows |-> rows]
Absent == File("absent", <<>>)

-----------------------------------------------------------------------------
(* extract_details.py: extract_detail *)

\* the href of the first <a href> inside a value node: absent, or text with
\* lead/trail white space around an absolute URL or a path
NoLink == [present |-> FALSE, abs |-> FALSE, s |-> "", trail |-> 0]
Link(abs, s, trail) == [present |-> TRUE, abs |-> abs, s |-> s, trail |-> trail]

Spaces(n) == [i \in 1..n |-> S("sp")]

UrlStr(u) == "http://" \o u.host \o u.path

\* urljoin(page_url, a["href"]) as a string: a sequence of characters of
\* which only the white space is told apart; leading white space is dropped
\* by urljoin, trailing blanks are kept
urljoin_str(u, l) ==
    IF l.abs THEN <<S(l.s)>> \o Spaces(l.trail)
    ELSE IF l.s = "" THEN <<S(UrlStr(u))>>
    ELSE <<S("http://" \o u.host \o l.s)>> \o Spaces(l.trail)

\* a node matched by row_selector
Row(lab, val, label, text, link) ==
    [lab |-> lab, val |-> val, label |-> label, text |-> text, link |-> link]

DefaultSeps == <<"wave", "wave2", "-", "kara", "tilde">>

\* detail_sites.yaml
LabelMap ==
    [l \in {"url", "gaiyo", "dantai", "kingaku", "kikan", "kaishi", "shimekiri", "biko"} |->
        CASE l = "url" -> "source_url"
          [] l = "gaiyo" -> "summary"
          [] l = "dantai" -> "fund_name"
          [] l = "kingaku" -> "amount"
          [] l = "kikan" -> "period"
          [] l = "kaishi" -> "start_date"
          [] l = "shimekiri" -> "deadline_date"
          [] OTHER -> "note"]

detail_cfg == [label_map |-> LabelMap, range_separators |-> DefaultSeps]

\* label_map.get(label) of a row that has both sub-nodes; "" is None
FieldOf(cfg, row) ==
    IF ~row.lab \/ ~row.val THEN ""
    ELSE IF row.label \in DOMAIN cfg.label_map THEN cfg.label_map[row.label]
    ELSE ""

\* an out that carries no fetch date
InitOutUndated(title, u, day) ==
    [title |-> title, start_date |-> NoDate, deadline_date |-> NoDate,
     summary |-> <<>>, processed_summary |-> <<>>, amount |-> <<>>, fund_name |-> <<>>,
     source_url |-> <<>>, page_url |-> u, fetched_at |-> NoDate,
     category1 |-> <<>>, category2 |-> <<>>, category3 |-> <<>>, deleted |-> <<>>]

\* lines 35-50 and 52-55
InitOut(title, u, day) ==
    [title |-> title, start_date |-> NoDate, deadline_date |-> NoDate,
     summary |-> <<>>, processed_summary |-> <<>>, amount |-> <<>>, fund_name |-> <<>>,
     source_url |-> <<>>, page_url |-> u, fetched_at |-> DateOfDay(day),
     category1 |-> <<>>, category2 |-> <<>>, category3 |-> <<>>, deleted |-> <<>>]

HasTok(s, c) == \E i \in DOMAIN s : s[i].c = c
FirstTok(s, c) == Leftmost({i \in DOMAIN s : s[i].c = c})

RECURSIVE FirstSep(_, _)
\* the first separator of seps that occurs in raw ("" when none does)
FirstSep(seps, raw) ==
    IF seps = <<>> THEN ""
    ELSE IF HasTok(raw, Head(seps)) THEN Head(seps)
    ELSE FirstSep(Tail(seps), raw)

\* re.search(r"(\d{4})\s*年", left): the year, or 0 when nothing matches
YearHint(left) ==
    LET P == {i \in DOMAIN left :
                IsDigits(left, i) /\ left[i].w >= 4
                /\ IsSym(left, SkipWs(left, i + 1), {"nen"})}
    IN  IF P = {} THEN 0 ELSE LastFour(left[Leftmost(P)])

\* lines 88-101: the start and end a period row yields
PeriodParts(cfg, text, day) ==
    LET raw == Collapse(text)
        sep == FirstSep(cfg.range_separators, raw)
    IN  IF sep = "" THEN [start |-> norm_date(raw, YearOf(day)), end |-> NoDate]
        ELSE LET k == FirstTok(raw, sep)
                 left == SubSeq(raw, 1, k - 1)
                 right == SubSeq(raw, k + 1, Len(raw))
                 yh == YearHint(left)
                 ps == norm_date(left, YearOf(day))
                 pe == norm_date(right, IF yh # 0 THEN yh ELSE YearOf(day))
             IN  IF ps = NoDate /\ pe = NoDate
                 THEN [start |-> norm_date(raw, YearOf(day)), end |-> NoDate]
                 ELSE [start |-> ps, end |-> pe]

\* a later value that replaces an earlier one
LaterDate(x, y) == IF y # NoDate THEN y ELSE x

\* x or y on dates
OrDate(x, y) == IF x # NoDate THEN x ELSE y

\* lines 105-109: a directly mapped date row assigns the parsed value
DirectDate(old, text, day) == norm_date(text, YearOf(day))

\* lines 60-109: one iteration of the row loop
RowStep(out, row, cfg, day) ==
    LET field == FieldOf(cfg, row)
    IN  CASE field = "source_url" ->
                IF row.link.present
                THEN [out EXCEPT !.source_url = urljoin_str(out.page_url, row.link)]
                ELSE out
          [] field = "summary" -> [out EXCEPT !.summary = row.text]
          [] field = "fund_name" -> [out EXCEPT !.fund_name = row.text]
          [] field = "amount" -> [out EXCEPT !.amount = row.text]
          [] field = "period" ->
                LET p == PeriodParts(cfg, row.text, day)
                IN  [out EXCEPT !.start_date = OrDate(out.start_date, p.start),
                                !.deadline_date = OrDate(out.deadline_date, p.end)]
          [] field = "start_date" ->
                [out EXCEPT !.start_date = DirectDate(out.start_date, row.text, day)]
          [] field = "deadline_date" ->
                [out EXCEPT !.deadline_date = DirectDate(out.deadline_date, row.text, day)]
          [] OTHER -> out

\* (\d{1,2})[./月]\s*(\d{1,2})日? in the title
TitleAt(s, i) ==
    /\ IsDigits(s, i)
    /\ IsSym(s, i + 1, {".", "/", "gatsu"})
    /\ IsDigits(s, SkipWs(s, i + 2))

\* lines 111-119: the deadline taken from the title when no row gave one
TitleFallback(out, day) ==
    LET s == out.title
        P == {i \in DOMAIN s : TitleAt(s, i)}
    IN  IF out.deadline_date # NoDate \/ s = <<>> \/ P = {} THEN out
        ELSE LET i == Leftmost(P)
                 d == MakeDate(YearOf(day), LastTwo(s[i]), FirstTwo(s[SkipWs(s, i + 2)]))
             IN  IF d = NoDate THEN out ELSE [out EXCEPT !.deadline_date = d]

RECURSIVE FoldRows(_, _, _, _)
FoldRows(out, rows, cfg, day) ==
    IF rows = <<>> THEN out
    ELSE FoldRows(RowStep(out, Head(rows), cfg, day), Tail(rows), cfg, day)

\* a parsed detail page
Doc(title, rows) == [title |-> title, rows |-> rows]

\* extract_detail(html, page_url, cfg)
extract_detail(doc, u, cfg, day) ==
    TitleFallback(FoldRows(InitOut(doc.title, u, day), doc.rows, cfg, day), day)

-----------------------------------------------------------------------------
(* crawl_list.py: main *)

CrawlStartAt(store, idx) ==
    /\ list_store = store
    /\ index = idx
    /\ idx_rows = <<>>
    /\ pc = "idle"
    /\ rowi = 0
    /\ page_url = NoUrl
    /\ pages = 0
    /\ force = FALSE
    /\ today = 1
    /\ runs = 0
    /\ last_page = NoUrl
    /\ last_next = NoUrl
    /\ detail_urls = <<>>
    /\ added = 0
    /\ op = "init"
    /\ phase = "fresh"
    /\ exit_code = -1
    /\ visited = {}
    /\ clean = {}

CrawlStart(store) == CrawlStartAt(store, InitIndex)

InitCrawl == CrawlStart(<<>>)

CurRow == idx_rows[rowi]
CurCfg == site_map[CurRow.site_key]
\* a while-loop whose condition does not count the pages
InLoopUncapped == pc = "page" /\ page_url # NoUrl

\* line 198
InLoop == pc = "page" /\ page_url # NoUrl /\ pages < MAX_PAGES

\* lines 165-181: parse the arguments, read the index and the site map
StartRun ==
    /\ pc = "idle"
    /\ runs < MaxRuns
    /\ \E f \in BOOLEAN : force' = f
    /\ idx_rows' = index
    /\ pc' = "row"
    /\ rowi' = 1
    /\ runs' = runs + 1
    /\ op' = "start"
    /\ UNCHANGED notCrawl
    /\ exit_code' = -1
    /\ UNCHANGED <<list_store, index, page_url, pages, today, last_page,
                   last_next, detail_urls, added, phase, visited, clean>>

\* lines 170-178: the index is missing or empty, list_sites.yaml is missing
\* or empty; main prints the error and returns
ConfigError ==
    /\ pc = "idle"
    /\ runs < MaxRuns
    /\ \E e \in {"index_empty", "sites_missing", "sites_empty"} : op' = e
    /\ runs' = runs + 1
    /\ exit_code' = 0
    /\ UNCHANGED notCrawl
    /\ UNCHANGED <<list_store, index, idx_rows, pc, rowi, page_url, pages, force, today,
                   last_page, last_next, detail_urls, added, phase, visited, clean>>

AtRow == pc = "row" /\ rowi <= Len(idx_rows)

\* lines 184-185: the freshness gate
SkipFresh ==
    /\ AtRow
    /\ ~should_process_row(CurRow, force, today)
    /\ rowi' = rowi + 1
    /\ op' = "skip_fresh"
    /\ UNCHANGED notCrawl
    /\ UNCHANGED <<list_store, index, idx_rows, pc, page_url, pages, force, today,
                   runs, last_page, last_next, detail_urls, added, phase,
                   exit_code, visited, clean>>

\* lines 189-194: no configuration, or no list selector
SkipSite ==
    /\ AtRow
    /\ should_process_row(CurRow, force, today)
    /\ ~HasListSelector(CurRow.site_key)
    /\ rowi' = rowi + 1
    /\ op' = "skip_site"
    /\ UNCHANGED notCrawl
    /\ UNCHANGED <<list_store, index, idx_rows, pc, page_url, pages, force, today,
                   runs, last_page, last_next, detail_urls, added, phase,
                   exit_code, visited, clean>>

\* lines 196-197
BeginSite ==
    /\ AtRow
    /\ should_process_row(CurRow, force, today)
    /\ HasListSelector(CurRow.site_key)
    /\ page_url' = CurRow.url
    /\ pages' = 0
    /\ pc' = "page"
    /\ last_page' = NoUrl
    /\ last_next' = NoUrl
    /\ op' = "begin_site"
    /\ UNCHANGED notCrawl
    /\ UNCHANGED <<list_store, index, idx_rows, rowi, force, today, runs,
                   detail_urls, added, phase, exit_code, visited, clean>>

\* lines 216-218 and the step of the for-loop
MarkRow ==
    /\ idx_rows' = [idx_rows EXCEPT ![rowi] =
                        [@ EXCEPT !.processed = "1", !.updated_at = DateOfDay(today)]]
    /\ rowi' = rowi + 1
    /\ pc' = "row"
    /\ page_url' = NoUrl
    /\ pages' = 0
    /\ last_page' = NoUrl
    /\ last_next' = NoUrl
    /\ detail_urls' = <<>>
    /\ added' = 0
    /\ visited' = {}

\* lines 199-211: one iteration of the while-loop that raises nothing
FetchPage ==
    /\ InLoop
    /\ \E page \in Web(page_url) :
          LET urls == collect_detail_urls(page, page_url)
              r == append_to_store(list_store, CurRow.site_key, urls, today)
              next_url == find_next_url(page, page_url, CurCfg)
          IN  /\ detail_urls' = urls
              /\ list_store' = r.store
              /\ added' = r.n
              /\ last_next' = next_url
              /\ page_url' = next_page(next_url, page_url)
    /\ last_page' = page_url
    /\ pages' = pages + 1
    /\ op' = "fetch"
    /\ UNCHANGED notCrawl
    /\ visited' = visited \cup {page_url}
    /\ UNCHANGED <<index, idx_rows, pc, rowi, force, today, runs, phase, exit_code, clean>>

\* a failed fetch that ends the whole run instead of the site's pagination
FetchFailAborts ==
    /\ InLoop
    /\ pc' = "idle"
    /\ idx_rows' = <<>>
    /\ rowi' = 0
    /\ page_url' = NoUrl
    /\ pages' = 0
    /\ last_page' = NoUrl
    /\ last_next' = NoUrl
    /\ detail_urls' = <<>>
    /\ added' = 0
    /\ visited' = {}
    /\ op' = "fetch_fail"
    /\ UNCHANGED notCrawl
    /\ UNCHANGED <<list_store, index, force, today, runs, phase, exit_code, clean>>

\* lines 212-214: fetch raised; the site's pagination ends
FetchFail ==
    /\ InLoop
    /\ MarkRow
    /\ op' = "fetch_fail"
    /\ UNCHANGED notCrawl
    /\ UNCHANGED <<list_store, index, force, today, runs, phase, exit_code, clean>>

\* line 198 false: the while-loop ends
EndSite ==
    /\ pc = "page"
    /\ ~InLoop
    /\ MarkRow
    /\ clean' = clean \cup {CurRow.site_key}
    /\ op' = "end_site"
    /\ UNCHANGED notCrawl
    /\ UNCHANGED <<list_store, index, force, today, runs, phase, exit_code>>

\* lines 220-224: the index is written back
FinishRun ==
    /\ pc = "row"
    /\ rowi > Len(idx_rows)
    /\ index' = idx_rows
    /\ pc' = "idle"
    /\ phase' = IF phase = "crashed" THEN "recovered" ELSE phase
    /\ idx_rows' = <<>>
    /\ rowi' = 0
    /\ op' = "finish"
    /\ UNCHANGED notCrawl
    /\ exit_code' = 0
    /\ UNCHANGED <<list_store, page_url, pages, force, today, runs,
                   last_page, last_next, detail_urls, added, visited, clean>>

\* the process is killed inside append_to_store's write loop (lines 151-154),
\* after k rows of the batch reached the file; nothing else of the run is kept
Interrupt ==
    /\ InLoop
    /\ \E page \in Web(page_url) :
          LET urls == collect_detail_urls(page, page_url)
              rows == to_append(list_store, CurRow.site_key, urls, today)
          IN  \E k \in 0..Len(rows) :
                /\ list_store' = list_store \o SubSeq(rows, 1, k)
                /\ phase' = IF k < Len(rows) THEN "crashed" ELSE phase
    /\ pc' = "idle"
    /\ idx_rows' = <<>>
    /\ rowi' = 0
    /\ page_url' = NoUrl
    /\ pages' = 0
    /\ last_page' = NoUrl
    /\ last_next' = NoUrl
    /\ detail_urls' = <<>>
    /\ added' = 0
    /\ visited' = {}
    /\ exit_code' = 137
    /\ op' = "interrupt"
    /\ UNCHANGED notCrawl
    /\ UNCHANGED <<index, force, today, runs, clean>>

NextDay ==
    /\ pc = "idle"
    /\ today < MaxDay
    /\ today' = today + 1
    /\ op' = "next_day"
    /\ UNCHANGED notCrawl
    /\ clean' = {}
    /\ UNCHANGED <<list_store, index, idx_rows, pc, rowi, page_url, pages, force,
                   runs, last_page, last_next, detail_urls, added, phase,
                   exit_code, visited>>

NextCrawl ==
    \/ StartRun
    \/ ConfigError
    \/ SkipFresh
    \/ SkipSite
    \/ BeginSite
    \/ FetchPage
    \/ FetchFail
    \/ EndSite
    \/ FinishRun
    \/ Interrupt
    \/ NextDay

-----------------------------------------------------------------------------
(* extract_details.py: extract_detail, row by row *)

\* the rows a page is made of
RowPool ==
    { \* 締切 2025/10/31
      Row(TRUE, TRUE, "shimekiri", <<D(2025, 4), S("/"), D(10, 2), S("/"), D(31, 2)>>, NoLink),
      \* 締切 11/30
      Row(TRUE, TRUE, "shimekiri", <<D(11, 2), S("/"), D(30, 2)>>, NoLink),
      \* 締切 with no date in it
      Row(TRUE, TRUE, "shimekiri", <<S("x"), S("x")>>, NoLink),
      \* 期間 2025年9月1日～10月31日
      Row(TRUE, TRUE, "kikan",
          <<D(2025, 4), S("nen"), D(9, 1), S("gatsu"), D(1, 1), S("nichi"), S("wave"),
            D(10, 2), S("gatsu"), D(31, 2), S("nichi")>>, NoLink),
      \* 期間 2024/4/1～5/31
      Row(TRUE, TRUE, "kikan",
          <<D(2024, 4), S("/"), D(4, 1), S("/"), D(1, 1), S("wave"), D(5, 1), S("/"), D(31, 2)>>,
          NoLink),
      \* 期間 12/1 から 2/30
      Row(TRUE, TRUE, "kikan",
          <<D(12, 2), S("/"), D(1, 1), S("sp"), S("kara"), S("sp"), D(2, 1), S("/"), D(30, 2)>>,
          NoLink),
      \* 開始 9.15
      Row(TRUE, TRUE, "kaishi", <<D(9, 1), S("."), D(15, 2)>>, NoLink),
      \* 概要
      Row(TRUE, TRUE, "gaiyo", <<S("x"), S("sp"), S("sp"), S("x")>>, NoLink),
      \* URL
      Row(TRUE, TRUE, "url", <<S("x")>>, Link(TRUE, "http://f/g1", 1)),
      \* a row without a value node, an unmapped label, an unhandled field
      Row(TRUE, FALSE, "shimekiri", <<>>, NoLink),
      Row(TRUE, TRUE, "sonota", <<S("x")>>, NoLink),
      Row(TRUE, TRUE, "biko", <<S("x")>>, NoLink) }

TitlePool ==
    { <<>>, <<S("x")>>, <<S("x"), S("sp"), D(12, 2), S("gatsu"), D(25, 2), S("nichi")>> }

DocPool == {Doc(t, r) : t \in TitlePool, r \in UNION {[1..n -> RowPool] : n \in 0..MaxRows}}

XUrl == Url("a", "/d1")

ExtractOff ==
    /\ xdoc = Doc(<<>>, <<>>)
    /\ xout = InitOut(<<>>, NoUrl, 1)
    /\ xi = 0
    /\ xpc = "off"

InitExtract ==
    /\ InitCrawl
    /\ details = Absent /\ bak = Absent /\ tmp = Absent /\ dpc = "idle" /\ dop = "init"
    /\ dd_old = <<>> /\ rerun = FALSE /\ fresh_out = FALSE /\ out_rows = <<>>
    /\ li = 0 /\ processed = 0 /\ bforce = FALSE /\ blimit = 0 /\ bsite = "" /\ bruns = 0
    /\ krows = <<>> /\ kidx = {} /\ kkeeper = 0 /\ kpc = "off"
    /\ public = Absent
    /\ xdoc \in DocPool
    /\ xout = InitOut(xdoc.title, XUrl, today)
    /\ xi = 1
    /\ xpc = "rows"

XAtRow == xpc = "rows" /\ xi <= Len(xdoc.rows)
XField == FieldOf(detail_cfg, xdoc.rows[xi])

XStep ==
    /\ xout' = RowStep(xout, xdoc.rows[xi], detail_cfg, today)
    /\ xi' = xi + 1
    /\ UNCHANGED <<xdoc, xpc, crawlVars, detailVars, keeperVars, publicVars>>

\* lines 63-69: the row has no label or value node, or its label is not mapped
XSkipRow == XAtRow /\ XField = "" /\ XStep

\* lines 73-76
XSourceUrl == XAtRow /\ XField = "source_url" /\ XStep

\* lines 78-85
XText == XAtRow /\ XField \in {"summary", "fund_name", "amount"} /\ XStep

\* lines 87-103
XPeriod == XAtRow /\ XField = "period" /\ XStep

\* lines 105-106
XStartDate == XAtRow /\ XField = "start_date" /\ XStep

\* lines 108-109
XDeadline == XAtRow /\ XField = "deadline_date" /\ XStep

\* a mapped field no branch handles
XUnhandled ==
    /\ XAtRow
    /\ XField \notin {"", "source_url", "summary", "fund_name", "amount", "period",
                      "start_date", "deadline_date"}
    /\ XStep

\* lines 111-121
XFinish ==
    /\ xpc = "rows"
    /\ xi > Len(xdoc.rows)
    /\ xout' = TitleFallback(xout, today)
    /\ xpc' = "done"
    /\ UNCHANGED <<xdoc, xi, crawlVars, detailVars, keeperVars, publicVars>>

NextExtract ==
    \/ XSkipRow
    \/ XSourceUrl
    \/ XText
    \/ XPeriod
    \/ XStartDate
    \/ XDeadline
    \/ XUnhandled
    \/ XFinish

-----------------------------------------------------------------------------
(* dedupe_details.py: the pure parts *)

\* a pass that resets every flag
reset_deleted_col(rows) == [i \in DOMAIN rows |-> [rows[i] EXCEPT !.deleted = "0"]]

\* lines 29-35
ensure_deleted_col(rows) ==
    [i \in DOMAIN rows |->
        IF rows[i].deleted = "" THEN [rows[i] EXCEPT !.deleted = "0"] ELSE rows[i]]

\* lines 37-42, and the same with the raw length
raw_len(text) == CharLen(text)

norm_len(text) == IF text = <<>> THEN 0 ELSE CharLen(Collapse(text))

\* datetime.min
DateMin == <<1, 1, 1>>

\* parse_date(s) or datetime.min; a triple <<y, m, d>> is the string
\* "y-m-d", anything else does not parse
parse_date(s) ==
    IF Len(s) # 3 THEN DateMin
    ELSE IF ValidDate(s[1], s[2], s[3]) THEN s ELSE DateMin

DateLess(a, b) ==
    \/ a[1] < b[1]
    \/ a[1] = b[1] /\ a[2] < b[2]
    \/ a[1] = b[1] /\ a[2] = b[2] /\ a[3] < b[3]

\* line 58: the tuple a candidate is sorted by
Score(rows, i) ==
    [slen |-> norm_len(rows[i].summary), fdt |-> parse_date(rows[i].fetched_at), i |-> i]

ScoreLess(a, b) ==
    \/ a.slen < b.slen
    \/ a.slen = b.slen /\ DateLess(a.fdt, b.fdt)
    \/ a.slen = b.slen /\ a.fdt = b.fdt /\ a.i < b.i

\* lines 50-60: scored.sort(reverse=True); scored[0][2]
choose_keeper(indices, rows) ==
    CHOOSE i \in indices :
        \A j \in indices \ {i} : ScoreLess(Score(rows, j), Score(rows, i))

src_key_raw(r) == r.source_url

\* line 108: (r.get("source_url") or "").strip()
src_key(r) == Strip(r.source_url)

\* lines 106-111: by_src[src] for the src of row i
by_src(rows, i) == {j \in DOMAIN rows : src_key(rows[j]) = src_key(rows[i])}

\* lines 116-123, as what becomes of row i
Resolved(rows, i) ==
    IF src_key(rows[i]) = <<>> THEN rows[i]
    ELSE IF Cardinality(by_src(rows, i)) <= 1 THEN rows[i]
    ELSE [rows[i] EXCEPT
            !.deleted = IF i = choose_keeper(by_src(rows, i), rows) THEN "0" ELSE "1"]

\* a resolution that groups only the rows flagged active when it starts, and
\* fills the empty flags afterwards
dedupe_main_active_only(rows) ==
    LET act == {i \in DOMAIN rows : rows[i].deleted = "0"}
        grp(i) == {j \in act : src_key(rows[j]) = src_key(rows[i])}
    IN  ensure_deleted_col(
            [i \in DOMAIN rows |->
                IF i \notin act \/ src_key(rows[i]) = <<>> \/ Cardinality(grp(i)) <= 1
                THEN rows[i]
                ELSE [rows[i] EXCEPT
                        !.deleted = IF i = choose_keeper(grp(i), rows) THEN "0" ELSE "1"]])

\* a resolution that drops the retired rows and renumbers the rest
dedupe_main_purge(rows) ==
    LET e == ensure_deleted_col(rows)
        r == [i \in DOMAIN e |-> Resolved(e, i)]
        kept == SelectSeq(r, LAMBDA x : x.deleted # "1")
    IN  [i \in DOMAIN kept |-> [kept[i] EXCEPT !.id = i]]

\* lines 103-123: the rows main hands to write_rows
dedupe_main(rows) ==
    LET e == ensure_deleted_col(rows)
    IN  [i \in DOMAIN e |-> Resolved(e, i)]

-----------------------------------------------------------------------------
(* extract_batch.py: the pure parts, and what the detail pages hold *)

\* detail_sites.yaml
site_cfg_map == [k \in {"A"} |-> detail_cfg]

SumShort == <<S("x"), S("sp"), S("x")>>
SumWide == <<S("x"), S("sp"), S("sp"), S("x"), S("x"), S("x")>>
SumLong == <<S("x"), S("x"), S("x"), S("x")>>
ATitle == <<S("x"), S("x")>>

UrlRow(l) == Row(TRUE, TRUE, "url", <<S("x")>>, l)
SumRow(t) == Row(TRUE, TRUE, "gaiyo", t, NoLink)

\* the documents a GET of a detail URL may return; the empty document is an
\* error page, which SESSION.get(...).text returns like any other
DetailWeb(u) ==
    CASE u = Url("a", "/d1") ->
            { Doc(ATitle, <<UrlRow(Link(TRUE, "http://f/g1", 0)), SumRow(SumShort)>>) }
      [] u = Url("a", "/d2") ->
            { Doc(ATitle, <<UrlRow(Link(TRUE, "http://f/g1", 1)), SumRow(SumWide)>>),
              Doc(<<>>, <<>>) }
      [] u = Url("a", "/d3") ->
            { Doc(ATitle, <<UrlRow(Link(TRUE, "http://f/g1", 0)), SumRow(SumShort)>>) }
      [] OTHER -> {}

\* the URL store the extraction reads: what two crawls leave when the second
\* finds /d3 on site A
QueueStore ==
    << StoreRow(1, "A", Url("a", "/d1"), 1),
       StoreRow(2, "A", Url("a", "/d2"), 1),
       StoreRow(3, "B", Url("b", "/e1"), 1),
       StoreRow(4, "A", Url("a", "/d3"), 1) >>

RECURSIVE Newlines(_)
\* what a file opened for reading without newline="" hands to the csv reader
\* (line 107): a carriage return, alone or before a line feed, arrives as a
\* line feed, inside a quoted field too
Newlines(t) ==
    IF t = <<>> THEN <<>>
    ELSE IF Head(t) # S("cr") THEN <<Head(t)>> \o Newlines(Tail(t))
    ELSE IF Len(t) >= 2 /\ t[2] = S("lf") THEN <<S("lf")>> \o Newlines(SubSeq(t, 3, Len(t)))
    ELSE <<S("lf")>> \o Newlines(Tail(t))

\* lines 107-108: a row of the details store as csv.DictReader returns it
read_row(r) ==
    [r EXCEPT !.title = Newlines(@), !.summary = Newlines(@),
              !.processed_summary = Newlines(@), !.amount = Newlines(@),
              !.fund_name = Newlines(@), !.source_url = Newlines(@),
              !.category1 = Newlines(@), !.category2 = Newlines(@),
              !.category3 = Newlines(@)]

\* the existing rows read and kept under the ids they came with
KeepIds(rows) == [i \in DOMAIN rows |-> read_row(rows[i])]

\* lines 106-115: the existing rows, renumbered from 1
Renumber(rows) == [i \in DOMAIN rows |-> [read_row(rows[i]) EXCEPT !.id = i]]

\* load_existing_fetched_at()[u], NoDate when u has no entry
existing_fetched(rows, u) ==
    LET P == {i \in DOMAIN rows : rows[i].page_url = u /\ rows[i].fetched_at # NoDate}
    IN  IF P = {} THEN NoDate
        ELSE rows[CHOOSE i \in P : \A j \in P : j <= i].fetched_at

\* lines 144-164
BatchRow(id, site_key, data, old_fetched) ==
    [id |-> id, site_key |-> site_key,
     fetched_at |-> OrDate(old_fetched, data.fetched_at),
     title |-> data.title, start_date |-> data.start_date,
     deadline_date |-> data.deadline_date, summary |-> data.summary,
     processed_summary |-> <<>>, amount |-> data.amount, fund_name |-> data.fund_name,
     source_url |-> data.source_url, page_url |-> data.page_url,
     category1 |-> <<>>, category2 |-> <<>>, category3 |-> <<>>, deleted |-> ""]

\* line 134: a row with this page_url is already in out_rows
AlreadyOut(rows, u) == \E i \in DOMAIN rows : rows[i].page_url = u

-----------------------------------------------------------------------------
(* dedupe_details.py: main and write_rows, step by step *)

\* the details store before the first step: none yet, or the one a run
\* limited to one page left on day 1
EarlierStores ==
    { Absent,
      File("ok", << BatchRow(1, "A",
                             extract_detail(Doc(ATitle, <<UrlRow(Link(TRUE, "http://f/g1", 0)),
                                                          SumRow(SumShort)>>),
                                            Url("a", "/d1"), detail_cfg, 1),
                             NoDate) >>) }

DetailsOff ==
    /\ bak = Absent
    /\ tmp = Absent
    /\ dpc = "idle"
    /\ dop = "init"
    /\ dd_old = <<>>
    /\ rerun = FALSE
    /\ fresh_out = FALSE
    /\ out_rows = <<>>
    /\ li = 0
    /\ processed = 0
    /\ bforce = FALSE
    /\ blimit = 0
    /\ bsite = ""
    /\ bruns = 0
    /\ public = Absent

DetailsStart ==
    /\ details = Absent
    /\ DetailsOff

KeeperOff ==
    /\ krows = <<>>
    /\ kidx = {}
    /\ kkeeper = 0
    /\ kpc = "off"

notDetailsButDay == <<list_store, index, idx_rows, pc, rowi, page_url, pages, force,
                      runs, last_page, last_next, detail_urls, added, op, phase,
                      exit_code, visited, clean, extractVars, keeperVars,
                      publicVars>>

notDetails == <<notDetailsButDay, today>>

\* lines 21-25: read_rows finds no file and exits
DedupeNoFile ==
    /\ dpc = "idle"
    /\ details.st = "absent"
    /\ dop' = "dd_nofile"
    /\ UNCHANGED <<details, bak, tmp, dpc, dd_old, rerun, fresh_out, out_rows, li,
                   processed, bforce, blimit, bsite, bruns>>
    /\ UNCHANGED notDetails

\* lines 99-101: the store has no rows
DedupeEmpty ==
    /\ dpc = "idle"
    /\ details.st = "ok"
    /\ details.rows = <<>>
    /\ dop' = "dd_empty"
    /\ UNCHANGED <<details, bak, tmp, dpc, dd_old, rerun, fresh_out, out_rows, li,
                   processed, bforce, blimit, bsite, bruns>>
    /\ UNCHANGED notDetails

\* lines 99-123 and 62-83: the rows are read and resolved, the temporary
\* file is written
DedupeWriteTmp ==
    /\ dpc = "idle"
    /\ details.st = "ok"
    /\ details.rows # <<>>
    /\ tmp' = File("ok", dedupe_main(details.rows))
    /\ dd_old' = details.rows
    /\ rerun' = fresh_out
    /\ dpc' = "dd_tmp"
    /\ dop' = "dd"
    /\ UNCHANGED <<details, bak, fresh_out, out_rows, li, processed, bforce, blimit,
                   bsite, bruns>>
    /\ UNCHANGED notDetails

\* the process dies while it writes the temporary file (lines 79-83); what a
\* cut-short temporary file holds is never read back
DedupeTornTmp ==
    /\ dpc = "idle"
    /\ details.st = "ok"
    /\ details.rows # <<>>
    /\ tmp' = File("partial", <<>>)
    /\ dd_old' = details.rows
    /\ dop' = "dd"
    /\ UNCHANGED <<details, bak, dpc, rerun, fresh_out, out_rows, li, processed, bforce,
                   blimit, bsite, bruns>>
    /\ UNCHANGED notDetails

\* lines 86-91: the old backup is removed
DedupeUnlinkBak ==
    /\ dpc = "dd_tmp"
    /\ bak' = Absent
    /\ dpc' = "dd_unlinked"
    /\ dop' = "dd"
    /\ UNCHANGED <<details, tmp, dd_old, rerun, fresh_out, out_rows, li, processed,
                   bforce, blimit, bsite, bruns>>
    /\ UNCHANGED notDetails

\* line 92: p.replace(bak)
DedupeMoveBak ==
    /\ dpc = "dd_unlinked"
    /\ bak' = details
    /\ details' = Absent
    /\ fresh_out' = FALSE
    /\ dpc' = "dd_moved"
    /\ dop' = "dd"
    /\ UNCHANGED <<tmp, dd_old, rerun, out_rows, li, processed, bforce, blimit, bsite,
                   bruns>>
    /\ UNCHANGED notDetails

\* line 95: tmp.replace(p)
DedupeMoveTmp ==
    /\ dpc = "dd_moved"
    /\ details' = tmp
    /\ tmp' = Absent
    /\ fresh_out' = TRUE
    /\ dpc' = "idle"
    /\ dop' = "dd"
    /\ UNCHANGED <<bak, dd_old, rerun, out_rows, li, processed, bforce, blimit, bsite,
                   bruns>>
    /\ UNCHANGED notDetails

\* the process dies between two steps of write_rows
DedupeCrash ==
    /\ dpc \in {"dd_tmp", "dd_unlinked", "dd_moved"}
    /\ dpc' = "idle"
    /\ dop' = "dd"
    /\ UNCHANGED <<details, bak, tmp, dd_old, rerun, fresh_out, out_rows, li, processed,
                   bforce, blimit, bsite, bruns>>
    /\ UNCHANGED notDetails

-----------------------------------------------------------------------------
(* extract_batch.py: main, step by step *)

\* ensure_details_store_header: a missing store is created with its header
EnsuredStore == IF details.st = "absent" THEN File("ok", <<>>) ELSE details

\* lines 89-117; the run takes place on the day of the last run or on the
\* last day of the window
BatchStart ==
    /\ dpc = "idle"
    /\ bruns < MaxBatchRuns
    /\ \E f \in BOOLEAN, l \in 0..MaxLimit, k \in {"", "A"} :
          /\ bforce' = f
          /\ blimit' = l
          /\ bsite' = k
    /\ \E d \in {today, MaxDay} : today' = d
    /\ details' = EnsuredStore
    /\ fresh_out' = FALSE
    /\ out_rows' = Renumber(EnsuredStore.rows)
    /\ li' = 1
    /\ processed' = 0
    /\ bruns' = bruns + 1
    /\ dpc' = "xb_loop"
    /\ dd_old' = <<>>
    /\ rerun' = FALSE
    /\ dop' = "xb"
    /\ UNCHANGED <<bak, tmp>>
    /\ UNCHANGED notDetailsButDay

LimitHit == blimit # 0 /\ processed >= blimit
InBatchLoop == dpc = "xb_loop" /\ li <= Len(list_store) /\ ~LimitHit
ListRow == list_store[li]

\* lines 121-135: the conditions under which the loop moves on
BatchSkips ==
    \/ bsite # "" /\ ListRow.site_key # bsite
    \/ ListRow.site_key = ""
    \/ ListRow.url = NoUrl
    \/ ListRow.site_key \notin DOMAIN site_cfg_map
    \/ ~bforce /\ AlreadyOut(out_rows, ListRow.url)

BatchSkip ==
    /\ InBatchLoop
    /\ BatchSkips
    /\ li' = li + 1
    /\ UNCHANGED <<details, bak, tmp, dpc, dop, dd_old, rerun, fresh_out, out_rows,
                   processed, bforce, blimit, bsite, bruns>>
    /\ UNCHANGED notDetails

\* lines 137-142: the GET or the extraction raised
BatchFetchFail ==
    /\ InBatchLoop
    /\ ~BatchSkips
    /\ li' = li + 1
    /\ UNCHANGED <<details, bak, tmp, dpc, dop, dd_old, rerun, fresh_out, out_rows,
                   processed, bforce, blimit, bsite, bruns>>
    /\ UNCHANGED notDetails

\* lines 165-167: out_rows.append(out)
AddOut(rows, rec) == Append(rows, rec)

\* lines 137-167: the page is fetched and extracted, its record appended
BatchExtract ==
    /\ InBatchLoop
    /\ ~BatchSkips
    /\ \E doc \in DetailWeb(ListRow.url) :
          LET data == extract_detail(doc, ListRow.url, site_cfg_map[ListRow.site_key], today)
              rec == BatchRow(Len(out_rows) + 1, ListRow.site_key, data,
                              existing_fetched(details.rows, data.page_url))
          IN  out_rows' = AddOut(out_rows, rec)
    /\ processed' = processed + 1
    /\ li' = li + 1
    /\ UNCHANGED <<details, bak, tmp, dpc, dop, dd_old, rerun, fresh_out, bforce, blimit,
                   bsite, bruns>>
    /\ UNCHANGED notDetails

\* lines 169-176: the store is rewritten
BatchWrite ==
    /\ dpc = "xb_loop"
    /\ li > Len(list_store) \/ LimitHit
    /\ details' = File("ok", out_rows)
    /\ fresh_out' = FALSE
    /\ out_rows' = <<>>
    /\ li' = 0
    /\ processed' = 0
    /\ dpc' = "idle"
    /\ bforce' = FALSE
    /\ blimit' = 0
    /\ bsite' = ""
    /\ dop' = "xb"
    /\ UNCHANGED <<bak, tmp, dd_old, rerun, bruns>>
    /\ UNCHANGED notDetails

NextDetails ==
    \/ DedupeNoFile
    \/ DedupeEmpty
    \/ DedupeWriteTmp
    \/ DedupeTornTmp
    \/ DedupeUnlinkBak
    \/ DedupeMoveBak
    \/ DedupeMoveTmp
    \/ DedupeCrash
    \/ BatchStart
    \/ BatchSkip
    \/ BatchFetchFail
    \/ BatchExtract
    \/ BatchWrite

InitDetails ==
    /\ CrawlStart(QueueStore)
    /\ ExtractOff
    /\ details \in EarlierStores
    /\ DetailsOff
    /\ KeeperOff

-----------------------------------------------------------------------------
(* generate_public.py *)

\* norm_summary's maxlen
SUMMARY_MAXLEN == 600

RECURSIVE TakeChars(_, _)
\* s[:n]; a run of digits cut short keeps its leading digits
TakeChars(s, n) ==
    IF s = <<>> \/ n = 0 THEN <<>>
    ELSE LET h == Head(s)
             w == TokLen(h)
         IN  IF w <= n THEN <<h>> \o TakeChars(Tail(s), n - w)
             ELSE IF h.c = "d" THEN <<D(h.v \div Pow10(w - n), n)>>
             ELSE <<S("x")>>

\* lines 20-24; the ellipsis is one more character
norm_summary(s) ==
    IF s = <<>> THEN <<>>
    ELSE LET c == Collapse(s)
         IN  IF CharLen(c) <= SUMMARY_MAXLEN THEN c
             ELSE TakeChars(c, SUMMARY_MAXLEN - 1) \o <<S("x")>>

RECURSIVE JoinCats(_)
\* " / ".join(cats)
JoinCats(cats) ==
    IF cats = <<>> THEN <<>>
    ELSE IF Len(cats) = 1 THEN cats[1]
    ELSE cats[1] \o <<S("sp"), S("/"), S("sp")>> \o JoinCats(Tail(cats))

\* lines 40-56: the public row of a record
public_item(r) ==
    [title |-> r.title, start_date |-> r.start_date, deadline_date |-> r.deadline_date,
     summary |-> norm_summary(IF r.processed_summary # <<>> THEN r.processed_summary
                              ELSE r.summary),
     amount |-> r.amount, fund_name |-> r.fund_name, source_url |-> r.source_url,
     category |-> JoinCats(SelectSeq(<<r.category1, r.category2, r.category3>>,
                                     LAMBDA c : c # <<>>)),
     fetched_at |-> r.fetched_at]

\* the loop of lines 35-57 without the test of line 36
generate_public_all(rows) == [i \in DOMAIN rows |-> public_item(rows[i])]

\* lines 35-57: the rows main writes
generate_public(rows) ==
    LET live == SelectSeq(rows, LAMBDA r : r.deleted # "1")
    IN  [i \in DOMAIN live |-> public_item(live[i])]

\* lines 27-28: there is no details store
GeneratePublicNoFile ==
    /\ dpc = "idle"
    /\ details.st = "absent"
    /\ dop' = "gp_nofile"
    /\ UNCHANGED <<details, bak, tmp, dpc, dd_old, rerun, fresh_out, out_rows, li,
                   processed, bforce, blimit, bsite, bruns, public>>
    /\ UNCHANGED <<crawlVars, extractVars, keeperVars>>

\* lines 30-66: the details store is read and public_store.csv is written
GeneratePublic ==
    /\ dpc = "idle"
    /\ details.st # "absent"
    /\ public' = File("ok", generate_public(details.rows))
    /\ dop' = "gp"
    /\ UNCHANGED <<details, bak, tmp, dpc, dd_old, rerun, fresh_out, out_rows, li,
                   processed, bforce, blimit, bsite, bruns>>
    /\ UNCHANGED <<crawlVars, extractVars, keeperVars>>

-----------------------------------------------------------------------------
(* dedupe_details.py: choose_keeper on its own *)

SumPad == <<S("x"), S("sp"), S("sp"), S("sp"), S("x")>>

\* the rows choose_keeper reads: a summary and a fetched_at, the latter a
\* date of the window or a string that is no date
KeeperRows ==
    { [summary |-> t, fetched_at |-> f] :
        t \in {SumShort, SumPad, SumLong},
        f \in {<<2025, 13, 1>>, DateOfDay(1), DateOfDay(MaxDay)} }

InitKeeper ==
    /\ InitCrawl
    /\ ExtractOff
    /\ DetailsStart
    /\ krows \in UNION {[1..n -> KeeperRows] : n \in 2..MaxGroup}
    /\ kidx \in {g \in SUBSET (DOMAIN krows) : Cardinality(g) >= 2}
    /\ kkeeper = 0
    /\ kpc = "in"

\* line 120: keeper = choose_keeper(idxs, rows)
KeeperChoose ==
    /\ kpc = "in"
    /\ kkeeper' = choose_keeper(kidx, krows)
    /\ kpc' = "done"
    /\ UNCHANGED <<krows, kidx, crawlVars, extractVars, detailVars, publicVars>>

NextKeeper == KeeperChoose

-----------------------------------------------------------------------------
(* Specifications *)

\* the list crawler and the URL store
Init ==
    /\ InitCrawl
    /\ ExtractOff
    /\ DetailsStart
    /\ KeeperOff

Next == NextCrawl

Spec == Init /\ [][Next]_vars

\* extract_detail on every page of DocPool
SpecExtract == InitExtract /\ [][NextExtract]_vars

\* a record of the details store with a given source_url and deleted flag
StoredRec(i, src, del) ==
    [id |-> i, site_key |-> "A", fetched_at |-> DateOfDay(1), title |-> ATitle,
     start_date |-> NoDate, deadline_date |-> NoDate, summary |-> SumShort,
     processed_summary |-> <<>>, amount |-> <<>>, fund_name |-> <<>>,
     source_url |-> src, page_url |-> Url("a", "/d1"),
     category1 |-> <<>>, category2 |-> <<>>, category3 |-> <<>>, deleted |-> del]

\* no source_url, a URL, and the same URL with a trailing blank
SrcPool == {<<>>, <<S("http://f/g1")>>, <<S("http://f/g1")>> \o Spaces(1)}

\* the flag as extract_batch writes it, as a resolution writes it
FlagPool == {"", "0", "1"}

\* the details stores dedupe_details.main is run on
StorePool ==
    UNION { { [i \in 1..n |-> StoredRec(i, c[i][1], c[i][2])] :
                c \in [1..n -> SrcPool \X FlagPool] } : n \in 0..MaxStore }

InitResolve ==
    /\ InitCrawl
    /\ ExtractOff
    /\ details \in {File("ok", rows) : rows \in StorePool}
    /\ DetailsOff
    /\ KeeperOff

NextResolve ==
    \/ DedupeNoFile
    \/ DedupeEmpty
    \/ DedupeWriteTmp
    \/ DedupeTornTmp
    \/ DedupeUnlinkBak
    \/ DedupeMoveBak
    \/ DedupeMoveTmp
    \/ DedupeCrash

\* dedupe_details.main on every small details store
SpecResolve == InitResolve /\ [][NextResolve]_vars

\* records an earlier extract_batch run left and other components have since
\* written to: a resolved duplicate with a category and a rewritten summary, a
\* record whose rewritten summary holds a line break with a carriage return,
\* and a record of a page that has left the URL store; the ids are those of
\* a store put together from several files
BatchRecs ==
    { [StoredRec(5, <<S("http://f/g1")>>, "1")
         EXCEPT !.category1 = <<S("x")>>, !.processed_summary = <<S("x")>>],
      [StoredRec(2, <<>>, "")
         EXCEPT !.page_url = Url("a", "/d2"),
                !.processed_summary = <<S("x"), S("cr"), S("lf"), S("x")>>],
      [StoredRec(2, <<>>, "0") EXCEPT !.page_url = Url("a", "/d9")] }

\* the details stores extract_batch is run on
BatchStores ==
    {Absent} \cup {File("ok", rows) : rows \in UNION {[1..n -> BatchRecs] : n \in 0..MaxStore}}

InitBatch ==
    /\ CrawlStart(QueueStore)
    /\ ExtractOff
    /\ details \in BatchStores
    /\ DetailsOff
    /\ KeeperOff

NextBatch ==
    \/ BatchStart
    \/ BatchSkip
    \/ BatchFetchFail
    \/ BatchExtract
    \/ BatchWrite

\* extract_batch on every store of BatchStores
SpecBatch == InitBatch /\ [][NextBatch]_vars

NextPublic ==
    \/ NextResolve
    \/ GeneratePublicNoFile
    \/ GeneratePublic

\* dedupe_details and generate_public on every small store
SpecPublic == InitResolve /\ [][NextPublic]_vars

\* one iteration of the while-loop, whatever its outcome
PageStep == FetchPage \/ FetchFail \/ EndSite \/ Interrupt

InitPages ==
    /\ CrawlStartAt(<<>>, CycleIndex)
    /\ ExtractOff
    /\ DetailsStart
    /\ KeeperOff

\* the crawler on sites whose list pages form cycles; a process that is in
\* the while-loop goes on executing it
SpecPages == InitPages /\ [][NextCrawl]_vars /\ WF_vars(PageStep)

\* extract_batch and dedupe_details on the details store
SpecDetails == InitDetails /\ [][NextDetails]_vars

\* choose_keeper applied to every small group
SpecKeeper == InitKeeper /\ [][NextKeeper]_vars

-----------------------------------------------------------------------------
(* Claims about crawl_list.py *)

\* candidate lists for append_to_store: known and unknown URLs, with repeats
CandUrls == {Url("a", "/d1"), Url("b", "/e1"), Url("a", "/d9")}

CandLists == UNION {[1..n -> CandUrls] : n \in 0..MaxCand}

NewCount(store, urls) ==
    Cardinality({j \in DOMAIN urls : sha256(urls[j]) \notin existed_keys(store)})

\* C1: for every store the crawler can produce and every list of candidate
\* URLs, append_to_store returns the number of candidates whose identity key
\* was not in the store before the call; when every candidate's key is already
\* present it returns 0 and leaves the rows unchanged.
C1_AppendCountsNew ==
    pc = "idle" =>
        \A urls \in CandLists :
            LET r == append_to_store(list_store, "A", urls, today)
            IN  /\ r.n = NewCount(list_store, urls)
                /\ NewCount(list_store, urls) = 0 => (r.n = 0 /\ r.store = list_store)

\* a page whose links were all known was crawled again and added nothing
C1_Witness == op = "fetch" /\ detail_urls # <<>> /\ added = 0 /\ list_store # <<>>

\* C6: once find_next_url has returned the URL of the page just fetched, the
\* only step the site's crawl takes is to leave the while-loop: no fetch
\* follows, the row is marked and the for-loop moves to the next site.
C6_SelfNextStops ==
    [][(pc = "page" /\ last_page # NoUrl /\ last_next = last_page)
        => (op' = "end_site" /\ pc' = "row" /\ rowi' = rowi + 1
            /\ list_store' = list_store)]_vars

\* a page whose next link resolved to itself has just been fetched
C6_Witness == pc = "page" /\ last_page # NoUrl /\ last_next = last_page

\* C7: no two rows of the URL store share a dedupe_key, whatever runs were
\* interrupted inside a batch and started again.
C7_UniqueKeys ==
    \A i, j \in DOMAIN list_store :
        i # j => list_store[i].dedupe_key # list_store[j].dedupe_key

\* a run died with part of a batch written, and a later run ran to its end
C7_Witness == phase = "recovered" /\ op = "finish" /\ Len(list_store) >= 4

-----------------------------------------------------------------------------
(* Claims about extract_details.py *)

DeadlineRows(doc) == {i \in DOMAIN doc.rows : FieldOf(detail_cfg, doc.rows[i]) = "deadline_date"}
PeriodRows(doc) == {i \in DOMAIN doc.rows : FieldOf(detail_cfg, doc.rows[i]) = "period"}
ParsedAt(doc, i) == norm_date(doc.rows[i].text, YearOf(today))
ParsedDeadlines(doc) == {i \in DeadlineRows(doc) : ParsedAt(doc, i) # NoDate}

\* C5: on a page with two or more rows mapped to deadline_date (and no period
\* row), the record's deadline_date is the first non-empty parsed value of
\* those rows, in row order.
C5_FirstDeadlineKept ==
    (/\ xpc = "done"
     /\ Cardinality(DeadlineRows(xdoc)) >= 2
     /\ PeriodRows(xdoc) = {}
     /\ ParsedDeadlines(xdoc) # {})
        => xout.deadline_date = ParsedAt(xdoc, Leftmost(ParsedDeadlines(xdoc)))

ZeroRows == xpc = "done" /\ xdoc.rows = <<>>

RowFieldsEmpty(out) ==
    /\ out.start_date = NoDate
    /\ out.summary = <<>>
    /\ out.processed_summary = <<>>
    /\ out.amount = <<>>
    /\ out.fund_name = <<>>
    /\ out.source_url = <<>>
    /\ out.category1 = <<>>
    /\ out.category2 = <<>>
    /\ out.category3 = <<>>
    /\ out.deleted = <<>>

DateRows(doc) ==
    {i \in DOMAIN doc.rows :
        FieldOf(detail_cfg, doc.rows[i]) \in {"period", "start_date", "deadline_date"}}

\* the text of period row i on either side of its range separator
SplitRaw(doc, i) == Collapse(doc.rows[i].text)
SplitSep(doc, i) == FirstSep(detail_cfg.range_separators, SplitRaw(doc, i))
LeftOf(doc, i) == SubSeq(SplitRaw(doc, i), 1, FirstTok(SplitRaw(doc, i), SplitSep(doc, i)) - 1)
RightOf(doc, i) ==
    SubSeq(SplitRaw(doc, i), FirstTok(SplitRaw(doc, i), SplitSep(doc, i)) + 1,
           Len(SplitRaw(doc, i)))

\* the 4-digit year written on the left side, followed by the year glyph, a
\* slash, a dot or a hyphen; 0 when there is none
WrittenYears(left) ==
    {i \in DOMAIN left : IsDigits(left, i) /\ left[i].w = 4 /\ IsSym(left, i + 1, YearSeps)}

LeftYear(left) == IF WrittenYears(left) = {} THEN 0 ELSE left[Leftmost(WrittenYears(left))].v

\* the right side is a month/day with no year of its own
BareMonthDay(right) ==
    /\ \A i \in DOMAIN right : ~FullAt(right, i)
    /\ \E i \in DOMAIN right : ShortAt(right, i)

\* C13, as stated: on a page whose only date row is a period row split by a
\* range separator with a bare month/day on the right, the deadline has the
\* 4-digit year written on the left side (with the year glyph, a slash, a
\* dot or a hyphen), and the current year when the left side has none.
C13_YearPropagates ==
    (xpc = "done" /\ Cardinality(DateRows(xdoc)) = 1) =>
        \A i \in PeriodRows(xdoc) :
            (/\ SplitSep(xdoc, i) # ""
             /\ BareMonthDay(RightOf(xdoc, i))
             /\ norm_date(RightOf(xdoc, i), YearOf(today)) # NoDate)
                => xout.deadline_date =
                     norm_date(RightOf(xdoc, i),
                               IF LeftYear(LeftOf(xdoc, i)) # 0
                               THEN LeftYear(LeftOf(xdoc, i)) ELSE YearOf(today))

\* the deadlines the rows of the page yield: the end of a period row, the
\* parsed value of a deadline_date row
RowDeadline(doc, i) ==
    IF i \in PeriodRows(doc)
    THEN PeriodParts(detail_cfg, doc.rows[i].text, today).end
    ELSE IF i \in DeadlineRows(doc) THEN ParsedAt(doc, i)
    ELSE NoDate

RowDeadlines(doc) == {RowDeadline(doc, i) : i \in DOMAIN doc.rows} \ {NoDate}

\* C14, as stated: when some period or deadline_date row of the page yields
\* a parseable deadline, a deadline_date the record carries is one of the
\* deadlines the rows yield, never one read from the title.
C14_FallbackOnlyWithoutRowDeadline ==
    (xpc = "done" /\ RowDeadlines(xdoc) # {} /\ xout.deadline_date # NoDate)
        => xout.deadline_date \in RowDeadlines(xdoc)

-----------------------------------------------------------------------------
(* Claims about the details store *)

Flags(rows) == [i \in DOMAIN rows |-> rows[i].deleted]

\* the members of row i's group when records are grouped by the source_url
\* with its surrounding white space removed
StrippedGroup(rows, i) == {j \in DOMAIN rows : Strip(rows[j].source_url) = Strip(rows[i].source_url)}

\* the members of row i's group when records are grouped by the source_url
\* exactly as stored
ExactGroup(rows, i) == {j \in DOMAIN rows : rows[j].source_url = rows[i].source_url}

OneActive(rows, g) ==
    /\ Cardinality({j \in g : rows[j].deleted = "0"}) = 1
    /\ \A j \in g : rows[j].deleted \in {"0", "1"}

\* C2, as stated: after duplicate resolution every group of two or more
\* records that share the same non-empty source_url has exactly one record
\* with deleted = "0" and all its other members have deleted = "1".
C2_ExactGroupsResolved ==
    fresh_out =>
        \A i \in DOMAIN details.rows :
            (details.rows[i].source_url # <<>> /\ Cardinality(ExactGroup(details.rows, i)) >= 2)
                => OneActive(details.rows, ExactGroup(details.rows, i))

\* C2, amended: after duplicate resolution every group of two or more
\* records whose source_url is the same non-empty string once surrounding
\* white space is removed has exactly one record with deleted = "0" and all
\* its other members have deleted = "1".
C2_StrippedGroupsResolved ==
    fresh_out =>
        \A i \in DOMAIN details.rows :
            (Strip(details.rows[i].source_url) # <<>>
                /\ Cardinality(StrippedGroup(details.rows, i)) >= 2)
                => OneActive(details.rows, StrippedGroup(details.rows, i))

C2_Witness ==
    /\ fresh_out
    /\ \E i \in DOMAIN details.rows :
          /\ Cardinality(StrippedGroup(details.rows, i)) >= 3
          /\ ExactGroup(details.rows, i) # StrippedGroup(details.rows, i)
          /\ details.rows[i].deleted = "1"

\* C4: duplicate resolution run on the store it has just produced, with no
\* record added in between, computes the deleted flags the store already has.
C4_RerunKeepsFlags ==
    (dpc = "dd_tmp" /\ rerun) => Flags(tmp.rows) = Flags(details.rows)

C4_Witness ==
    /\ dpc = "dd_tmp"
    /\ rerun
    /\ \E i \in DOMAIN tmp.rows : tmp.rows[i].deleted = "1"

\* C8, as stated: the details store holds at most one record per page_url,
\* whatever extract_batch runs (forced or not) have written it.
C8_OneRecordPerPage ==
    \A i, j \in DOMAIN details.rows :
        details.rows[i].page_url = details.rows[j].page_url => i = j

SameButDeleted(a, b) ==
    /\ Len(a) = Len(b)
    /\ \A i \in DOMAIN a : [a[i] EXCEPT !.deleted = ""] = [b[i] EXCEPT !.deleted = ""]

\* C9: the store duplicate resolution leaves has as many records as the one
\* it read, in the same order, each with the same id and the same value in
\* every column but deleted.
C9_OnlyDeletedChanges ==
    /\ dpc \in {"dd_tmp", "dd_unlinked", "dd_moved"} => SameButDeleted(tmp.rows, dd_old)
    /\ fresh_out => SameButDeleted(details.rows, dd_old)

C9_Witness ==
    /\ fresh_out
    /\ dpc = "idle"
    /\ Len(details.rows) >= 3
    /\ Flags(details.rows) # Flags(dd_old)

\* C10, as stated: at every point a crash can strike between the steps of
\* write_rows, the primary path holds the complete previous version or the
\* complete new version of the store.
C10_PrimaryOldOrNew ==
    dpc \in {"dd_tmp", "dd_unlinked", "dd_moved"} =>
        /\ details.st = "ok"
        /\ details.rows \in {dd_old, dedupe_main(dd_old)}

\* the flag a resolution writes for a flag it leaves alone
Filled(del) == IF del = "" THEN "0" ELSE del

\* C18, as stated: a record whose source_url is empty, and a record that is
\* the only one with its source_url, has after a resolution exactly the
\* deleted value it had before, an empty flag included.
C18_LoneRecordsUntouched ==
    dpc = "dd_tmp" =>
        \A i \in DOMAIN details.rows :
            (details.rows[i].source_url = <<>> \/ ExactGroup(details.rows, i) = {i})
                => tmp.rows[i].deleted = details.rows[i].deleted

\* C18, amended: a record whose source_url is empty once surrounding white
\* space is removed, and a record that shares its stripped source_url with
\* no other record, keeps its deleted value through a resolution, a set "1"
\* included, except that an empty flag is written as "0".
C18_LoneRecordsKeepFlag ==
    dpc = "dd_tmp" =>
        \A i \in DOMAIN details.rows :
            (Strip(details.rows[i].source_url) = <<>> \/ StrippedGroup(details.rows, i) = {i})
                => tmp.rows[i].deleted = Filled(details.rows[i].deleted)

C18_Witness ==
    /\ dpc = "dd_tmp"
    /\ \E i, j, k \in DOMAIN details.rows :
          /\ details.rows[i].source_url = <<>>
          /\ details.rows[i].deleted = "1"
          /\ tmp.rows[i].deleted = "1"
          /\ StrippedGroup(details.rows, j) = {j}
          /\ details.rows[j].deleted = ""
          /\ tmp.rows[j].deleted = "0"
          /\ k \notin {i, j}

-----------------------------------------------------------------------------
(* Claims about choose_keeper *)

KLen(i) == CharLen(Collapse(krows[i].summary))

KParses(i) ==
    IF Len(krows[i].fetched_at) # 3 THEN FALSE
    ELSE ValidDate(krows[i].fetched_at[1], krows[i].fetched_at[2], krows[i].fetched_at[3])

\* i's fetch date is older than j's; a fetched_at that is no date is older
\* than every date
KOlder(i, j) ==
    \/ ~KParses(i) /\ KParses(j)
    \/ KParses(i) /\ KParses(j) /\ DateLess(krows[i].fetched_at, krows[j].fetched_at)

KSameDate(i, j) ==
    \/ ~KParses(i) /\ ~KParses(j)
    \/ KParses(i) /\ KParses(j) /\ krows[i].fetched_at = krows[j].fetched_at

KBeats(i, j) ==
    \/ KLen(i) > KLen(j)
    \/ KLen(i) = KLen(j) /\ KOlder(j, i)
    \/ KLen(i) = KLen(j) /\ KSameDate(i, j) /\ i > j

\* C3: the keeper is the member of the group with the greatest tuple
\* (length of the white-space-collapsed summary, fetch date, row index): it
\* beats every other member by a longer summary, or on equal length by a
\* more recent fetched_at (one that is no date counting as the oldest), or
\* on equal length and date by coming later in the row order.
C3_KeeperIsGreatest ==
    kpc = "done" =>
        /\ kkeeper \in kidx
        /\ \A j \in kidx \ {kkeeper} : KBeats(kkeeper, j)

C3_Witness ==
    /\ kpc = "done"
    /\ Cardinality(kidx) >= 2
    /\ \E j \in kidx \ {kkeeper} :
          /\ Len(krows[j].summary) > Len(krows[kkeeper].summary)
          /\ KLen(j) = KLen(kkeeper)
          /\ ~KParses(j)
          /\ KParses(kkeeper)

-----------------------------------------------------------------------------
(* Claims about the crawl run *)

\* C11: a site that is not configured, has no list selector, or whose fetch
\* raises ends only its own pagination: the step leaves the run at the next
\* index row with the URL store as it was; no row that passes the freshness
\* gate and has a list selector is passed over without its pages being
\* tried; and the run ends only after the last index row.
C11_SiteProblemContinues ==
    [][/\ (op' \in {"skip_site", "fetch_fail"} /\ pc \in {"row", "page"}) =>
            /\ pc' = "row"
            /\ rowi' = rowi + 1
            /\ Len(idx_rows') = Len(idx_rows)
            /\ list_store' = list_store
            /\ runs' = runs
       /\ (pc = "row" /\ pc' = "row" /\ rowi' = rowi + 1) =>
            ~(should_process_row(CurRow, force, today) /\ HasListSelector(CurRow.site_key))
       /\ (pc = "row" /\ pc' = "idle") => rowi > Len(idx_rows)
      ]_vars

\* the first run: site A's second page failed after /d1 was stored, N and S
\* were passed over, and site B's first page has been fetched
C11_Witness ==
    /\ runs = 1
    /\ pc = "page"
    /\ CurRow.site_key = "B"
    /\ pages >= 1
    /\ \E i \in DOMAIN list_store : list_store[i].url = Url("a", "/d1")
    /\ \A i \in DOMAIN list_store : list_store[i].url # Url("a", "/d4")

\* C15, as stated: a run that finds the index missing or empty, or the site
\* configuration missing or empty, ends with a non-zero exit status, with no
\* page fetched and no store modified.
C15_ConfigErrorExitsNonZero ==
    [][(pc = "idle" /\ op' \in {"index_empty", "sites_missing", "sites_empty"}) =>
            /\ exit_code' # 0
            /\ pc' = "idle"
            /\ pages' = pages
            /\ list_store' = list_store
            /\ index' = index
      ]_vars

\* C16: the crawl of a site ends, whatever the links between its list
\* pages: a page is fetched only while fewer than MAX_PAGES pages of the site
\* have been fetched in this run, the count never exceeds MAX_PAGES, and a
\* run that is in a site's pagination leaves it.
C16_SiteCrawlTerminates ==
    /\ [](pc = "page" => pages <= MAX_PAGES)
    /\ [][pages' = pages + 1 => pages < MAX_PAGES]_vars
    /\ (pc = "page") ~> (pc # "page")

\* the ring of three pages was followed until the page count stopped it
C16_Witness ==
    /\ pc = "page"
    /\ pages = MAX_PAGES
    /\ Cardinality(visited) = 3
    /\ page_url # NoUrl

\* C17, as stated: within the crawl of one site in one run no list page is
\* fetched a second time, also when the repeat comes about through other
\* pages.
C17_NoPageFetchedTwice ==
    [][pages' = pages + 1 => page_url \notin visited]_vars

\* C19, as stated: at an index row, a run without --force passes the site
\* over at the freshness gate exactly when the site's pagination ended
\* without an error in an earlier run of the same day; a forced run passes
\* no site over at the gate.
C19_SkippedIffProcessedToday ==
    [][AtRow => ((op' = "skip_fresh") <=> (~force /\ CurRow.site_key \in clean))]_vars

\* the nodes of a list page that carry a link, and where a URL is first linked
Linked(page) == {n \in DOMAIN page.items : page.items[n].present /\ page.items[n].href.kind # "empty"}
LinkAt(page, base, n) == urljoin(base, page.items[n].href)
FirstAt(page, base, u) ==
    CHOOSE n \in Linked(page) :
        /\ LinkAt(page, base, n) = u
        /\ \A m \in Linked(page) : LinkAt(page, base, m) = u => n <= m

\* C20: whenever a list page is fetched, every URL collect_detail_urls returns
\* has the host of that page, no URL is returned twice, the URLs are exactly
\* the same-host links of the page in the order of their first occurrence, and
\* every row the fetch appends to the URL store has the host of the page.
C20_SameHostNoRepeatInOrder ==
    [][(op' = "fetch" /\ pages' = pages + 1) =>
        /\ \E page \in Web(page_url) :
              /\ \A i \in DOMAIN detail_urls' : detail_urls'[i].host = page_url.host
              /\ \A i, j \in DOMAIN detail_urls' :
                    detail_urls'[i] = detail_urls'[j] => i = j
              /\ {detail_urls'[i] : i \in DOMAIN detail_urls'}
                    = {LinkAt(page, page_url, n) :
                         n \in {m \in Linked(page) : LinkAt(page, page_url, m).host = page_url.host}}
              /\ \A i, j \in DOMAIN detail_urls' :
                    i < j => FirstAt(page, page_url, detail_urls'[i])
                               < FirstAt(page, page_url, detail_urls'[j])
        /\ \A k \in (Len(list_store) + 1)..Len(list_store') :
              list_store'[k].url.host = page_url.host]_vars

\* the page with a repeated link and a link to another host has been fetched
C20_Witness ==
    /\ op = "fetch"
    /\ last_page = Url("a", "/list")
    /\ detail_urls = <<Url("a", "/d1"), Url("a", "/d2")>>

\* C21: every page fetched while a site is crawled, the pages reached through
\* next-page links included, has the host of the site's seed URL in the index.
C21_FetchesStayOnSeedHost ==
    [][(op' = "fetch" /\ pages' = pages + 1) => page_url.host = CurRow.url.host]_vars

\* where a URL stands in a candidate list
PosIn(urls, u) == CHOOSE n \in DOMAIN urls : urls[n] = u

\* C22: at every step the ids of the URL store are strictly increasing in row
\* order (hence pairwise distinct); the rows one append_to_store call adds get
\* ids greater than every id the store held, ids that grow by one from row to
\* row, and they stand in the order of the candidates.
C22_IdsIncrease ==
    [][/\ \A i, j \in DOMAIN list_store' :
             i < j => list_store'[i].id < list_store'[j].id
       /\ (op' = "fetch" /\ pages' = pages + 1) =>
             LET old == Len(list_store)
                 new == (old + 1)..Len(list_store')
             IN  /\ \A k \in new : \A i \in 1..old : list_store'[k].id > list_store[i].id
                 /\ \A k \in new : k + 1 \in new =>
                       /\ list_store'[k + 1].id = list_store'[k].id + 1
                       /\ PosIn(detail_urls', list_store'[k].url)
                            < PosIn(detail_urls', list_store'[k + 1].url)]_vars

\* a batch of two rows was appended to a store that held rows of earlier calls
C22_Witness == op = "fetch" /\ added = 2 /\ Len(list_store) >= 4

-----------------------------------------------------------------------------
(* Claims about an extract_batch run *)

BatchDone == dpc = "idle" /\ dop = "xb"

\* C23: when an extract_batch run has rewritten the details store, the id of
\* the i-th record is i, whatever ids the store held before the run and
\* whichever URLs were skipped or failed.
C23_IdsFromOne ==
    BatchDone => \A i \in DOMAIN details.rows : details.rows[i].id = i

\* a run has ended on a store whose first record came in with id 5, with a
\* record added and a URL of the queue left without a record
C23_Witness ==
    /\ BatchDone
    /\ Len(details.rows) >= 2
    /\ details.rows[1].deleted = "1"
    /\ details.rows[1].category1 = <<S("x")>>
    /\ details.rows[Len(details.rows)].fetched_at = DateOfDay(today)
    /\ \E k \in DOMAIN list_store :
          /\ list_store[k].site_key = "A"
          /\ ~AlreadyOut(details.rows, list_store[k].url)

\* a record but for its id
SansId(r) == [r EXCEPT !.id = 0]

\* the rows of old are found in new, in their order, each the same but for
\* its id
KeptInOrder(old, new) ==
    \E f \in [DOMAIN old -> DOMAIN new] :
        /\ \A i, j \in DOMAIN old : i < j => f[i] < f[j]
        /\ \A i \in DOMAIN old : SansId(new[f[i]]) = SansId(old[i])

\* C26, as stated: the rewrite that ends an extract_batch run leaves every
\* record the store held before the run in the store, in the same relative
\* order and with every field other than id as it was, whatever was skipped
\* or failed during the run.
C26_ExistingRecordsKept ==
    [][(dpc = "xb_loop" /\ dpc' = "idle") => KeptInOrder(details.rows, details'.rows)]_vars

-----------------------------------------------------------------------------
(* Claims about period rows *)

StartRows(doc) == {i \in DOMAIN doc.rows : FieldOf(detail_cfg, doc.rows[i]) = "start_date"}
PartsAt(doc, i) == PeriodParts(detail_cfg, doc.rows[i].text, today)
WithStart(doc) == {i \in PeriodRows(doc) : PartsAt(doc, i).start # NoDate}
WithEnd(doc) == {i \in PeriodRows(doc) : PartsAt(doc, i).end # NoDate}

\* C24: a period row leaves a start_date, and a deadline_date, that already
\* holds a date as it is; and on a page whose dates come from period rows
\* only, the record's start_date is the start of the first period row that
\* yields one (empty if none does) and its deadline_date is the end of the
\* first period row that yields one.
C24_FirstPeriodValueWins ==
    [][/\ (XAtRow /\ XField = "period") =>
             /\ xout.start_date # NoDate => xout'.start_date = xout.start_date
             /\ xout.deadline_date # NoDate => xout'.deadline_date = xout.deadline_date
       /\ (xpc' = "done" /\ StartRows(xdoc) = {} /\ DeadlineRows(xdoc) = {}) =>
             /\ xout'.start_date =
                    IF WithStart(xdoc) = {} THEN NoDate
                    ELSE PartsAt(xdoc, Leftmost(WithStart(xdoc))).start
             /\ WithEnd(xdoc) # {} =>
                    xout'.deadline_date = PartsAt(xdoc, Leftmost(WithEnd(xdoc))).end]_vars

\* a page with two period rows that give different start and end dates has
\* been extracted
C24_Witness ==
    /\ xpc = "done"
    /\ StartRows(xdoc) = {} /\ DeadlineRows(xdoc) = {}
    /\ \E i, j \in WithStart(xdoc) \cap WithEnd(xdoc) :
          /\ i < j
          /\ PartsAt(xdoc, i).start # PartsAt(xdoc, j).start
          /\ PartsAt(xdoc, i).end # PartsAt(xdoc, j).end
          /\ xout.start_date = PartsAt(xdoc, i).start

-----------------------------------------------------------------------------
(* Claims about the public store *)

Live(rows) == SelectSeq(rows, LAMBDA r : r.deleted # "1")

\* C25: when generate_public has just run on a store that a completed
\* duplicate resolution left, the public rows are the rows of the records not
\* flagged deleted, one for one, and no two public rows carry the same
\* non-empty source_url.
C25_PublicHasNoDuplicates ==
    (dop = "gp" /\ fresh_out) =>
        /\ Len(public.rows) = Len(Live(details.rows))
        /\ \A k \in DOMAIN public.rows :
              public.rows[k].source_url = Live(details.rows)[k].source_url
        /\ \A i, j \in DOMAIN public.rows :
              (i # j /\ public.rows[i].source_url # <<>>)
                  => public.rows[i].source_url # public.rows[j].source_url

\* the store held two records with one source_url, the resolution flagged one
\* of them, and the public store was written without it
C25_Witness ==
    /\ dop = "gp" /\ fresh_out
    /\ \E i, j \in DOMAIN details.rows :
          /\ i # j
          /\ details.rows[i].source_url # <<>>
          /\ details.rows[i].source_url = details.rows[j].source_url
          /\ details.rows[i].deleted = "1"
    /\ Len(public.rows) >= 2
    /\ Len(public.rows) < Len(details.rows)

=============================================================================
